---- MODULE Spec2Model ----
(***************************************************************************)
(* Model of ContentViewPlugin (src/main.ts): one persisted boolean,        *)
(* contentVisible, a marker class on document.body, a status-bar text and  *)
(* one toggle button per markdown pane, driven by the host's lifecycle     *)
(* calls (onload / onunload), the active-leaf-change event, the toggle     *)
(* command and button clicks.  Every action is one run-to-completion step: *)
(* a whole event turn, or the stretch of an async method between two awaits.*)
(***************************************************************************)
EXTENDS Integers, Sequences, FiniteSets, TLC

\* ---------------------------------------------------------------- bounds
MaxPanes == 2
MaxHostActions == 1
MaxPending == 2

VARIABLES
    panes,        \* workspace leaves: slot -> leaf (closed slots have open = FALSE)
    settings,     \* this.settings: a map from field names to values (<<>> before loadSettings)
    persisted,    \* the plugin's data blob on disk
    pending,      \* saveData calls issued and not yet written
    diskWrite,    \* last write that reached the disk: "none", "latest" (issued by the
                  \* most recent toggle) or "stale" (issued by an earlier one)
    hiddenClass,  \* document.body carries 'content-visible-hidden'
    statusText,   \* text of this.statusBarItem
    pc,           \* position of the async onload: "idle", "awaitLoad" (loadSettings
                  \* waits for loadData), "settingsLoaded" (loadSettings has returned,
                  \* onload's continuation is queued), "loaded"
    unloaded,     \* onunload has run
    registered,   \* the active-leaf-change listener and the command are registered
    last,         \* the event turn that produced this state
    run,          \* number of toggles in succession ending here (0, 1 or 2; a third starts a new run)
    saved,        \* <<observable state before the first toggle of the run>>, or <<>>
    scans         \* number of rescans in succession ending here (0, 1, or 2 for two and more)

vars == <<panes, settings, persisted, pending, diskWrite, hiddenClass,
          statusText, pc, unloaded, registered, last, run, saved, scans>>

\* ------------------------------------------------------------- settings
CV == "contentVisible"

\* const DEFAULT_SETTINGS = { contentVisible: true }
DEFAULT_SETTINGS == (CV :> TRUE)

\* variant: fields already in the target win over the source's
ObjectAssign_TargetWins(target, source) ==
    [k \in (DOMAIN target) \cup (DOMAIN source) |->
        IF k \in DOMAIN target THEN target[k] ELSE source[k]]

\* Object.assign(target, source): own fields of source override target's
ObjectAssign(target, source) ==
    [k \in (DOMAIN target) \cup (DOMAIN source) |->
        IF k \in DOMAIN source THEN source[k] ELSE target[k]]

NoObject == <<>>

\* the blob the host keeps for the plugin: absent (loadData() gives null) or an object
NoData == [present |-> FALSE, obj |-> NoObject]
Stored(o) == [present |-> TRUE, obj |-> o]

\* await this.loadData()
loadData(blob) == IF blob.present THEN blob.obj ELSE NoObject

\* this.settings = Object.assign({}, DEFAULT_SETTINGS, await this.loadData())
loadSettings(blob) == ObjectAssign(ObjectAssign(NoObject, DEFAULT_SETTINGS), loadData(blob))

\* this.settings.contentVisible (defined once loadSettings has run)
contentVisible == settings[CV]

\* blobs found on disk at start
Blobs ==
    { NoData, Stored(NoObject), Stored(CV :> TRUE), Stored(CV :> FALSE),
      Stored(("extra" :> 7) @@ (CV :> FALSE)), Stored("extra" :> 7) }

\* ---------------------------------------------------------- rendering tree
\* an element of a pane's .view-actions row
HostAction == [toggle |-> FALSE, viewAction |-> TRUE, icon |-> "host", label |-> "host"]

\* a child of the row that lacks the class view-action (a label, a spacer)
HostElement == [toggle |-> FALSE, viewAction |-> FALSE, icon |-> "host", label |-> "host"]

IconName(cv) == IF cv THEN "eye" ELSE "eye-off"
AriaLabel(cv) == IF cv THEN "Hide content" ELSE "Show content"
\* the two status literals (each carries an emoji prefix in the source)
StatusLiteral(cv) == IF cv THEN "Visible" ELSE "Hidden"

\* updateButtonIcon(button): the element's content becomes the svg of the current value
updateButtonIcon(e, cv) == [e EXCEPT !.icon = IconName(cv)]

\* the div created by addButtonToLeaf: classes clickable-icon view-action
\* content-visible-toggle-button, aria-label from the current value, then its icon
Button(cv) ==
    updateButtonIcon([toggle |-> TRUE, viewAction |-> TRUE, icon |-> "", label |-> AriaLabel(cv)], cv)

HostRow(n) == [j \in 1..n |-> HostAction]

Closed ==
    [open |-> FALSE, viewType |-> "none", isMarkdownView |-> FALSE,
     inDocument |-> FALSE, hasActions |-> FALSE, row |-> <<>>]

Leaf(type, isMd, inDoc, hasAct, n) ==
    [open |-> TRUE, viewType |-> type, isMarkdownView |-> isMd,
     inDocument |-> inDoc, hasActions |-> hasAct, row |-> HostRow(n)]

\* the leaves the host can open: a markdown view in the main window with
\* 0..MaxHostActions host controls, one without header/action row, one in a
\* pop-out window (outside `document`), a markdown leaf whose view is still
\* deferred (type 'markdown', not a MarkdownView), a non-markdown leaf, and a
\* markdown view whose row starts with a child that is not a view action
PaneShapes ==
    { Leaf("markdown", TRUE, TRUE, TRUE, n) : n \in 0..MaxHostActions }
    \cup { [Leaf("markdown", TRUE, TRUE, TRUE, 0) EXCEPT !.row = <<HostElement, HostAction>>],
           Leaf("markdown", TRUE, TRUE, FALSE, 0),
           Leaf("markdown", TRUE, FALSE, TRUE, 0),
           Leaf("markdown", FALSE, TRUE, TRUE, 0),
           Leaf("other", FALSE, TRUE, TRUE, 0) }

PaneIds == 1..MaxPanes

IsButton(e) == e.toggle
HasButton(row) == \E j \in 1..Len(row) : IsButton(row[j])
ButtonCount(row) == Cardinality({j \in 1..Len(row) : IsButton(row[j])})

\* forEach(el => el.remove()) over the buttons of one row
RemoveButtons(row) == SelectSeq(row, LAMBDA e : ~IsButton(e))

\* document.querySelectorAll('.content-visible-toggle-button').forEach(el => el.remove())
\* reaches the leaves attached to `document` only
RemoveAllButtons(ps) ==
    [i \in DOMAIN ps |->
        IF ps[i].open /\ ps[i].inDocument
        THEN [ps[i] EXCEPT !.row = RemoveButtons(@)]
        ELSE ps[i]]

\* variant: the type string never matches a leaf's view type
getLeavesOfType_Misspelt(ps, type) ==
    {i \in DOMAIN ps : ps[i].open /\ ps[i].viewType = "Markdown" /\ type = "markdown"}

\* this.app.workspace.getLeavesOfType('markdown')
getLeavesOfType(ps, type) == {i \in DOMAIN ps : ps[i].open /\ ps[i].viewType = type}

\* viewActions.querySelector('.view-action'): index of the first match, 0 if none
FirstViewAction(row) ==
    IF \E j \in 1..Len(row) : row[j].viewAction
    THEN CHOOSE j \in 1..Len(row) :
            row[j].viewAction /\ \A k \in 1..(j - 1) : ~row[k].viewAction
    ELSE 0

\* variant: the node stays where createDiv put it, at the end of the row
InsertLastBefore_Stays(row, ref) == row

\* viewActions.insertBefore(node, ref) for the last child node of the row
InsertLastBefore(row, ref) ==
    IF ref = Len(row)
    THEN row
    ELSE SubSeq(row, 1, ref - 1) \o <<row[Len(row)]>> \o SubSeq(row, ref, Len(row) - 1)

\* the creation and placement of the button (lines 74-97)
CreateButton(leaf, cv) ==
    LET created == Append(leaf.row, Button(cv))      \* createDiv appends the div
        firstAction == FirstViewAction(created)
    IN  [leaf EXCEPT !.row =
            IF firstAction # 0
            THEN InsertLastBefore(created, firstAction)
            ELSE created]

\* variant: no look for a button that is already in the row
addButtonToLeaf_NoExistingCheck(leaf, cv) ==
    IF ~leaf.isMarkdownView THEN leaf
    ELSE IF ~leaf.hasActions THEN leaf
    ELSE CreateButton(leaf, cv)

\* variant: no instanceof MarkdownView test
addButtonToLeaf_NoViewCheck(leaf, cv) ==
    IF ~leaf.hasActions THEN leaf
    ELSE IF HasButton(leaf.row) THEN leaf
    ELSE CreateButton(leaf, cv)

\* variant: the look for an existing button uses the selector '.view-action'
addButtonToLeaf_WrongSelector(leaf, cv) ==
    IF ~leaf.isMarkdownView THEN leaf
    ELSE IF ~leaf.hasActions THEN leaf
    ELSE IF \E j \in 1..Len(leaf.row) : leaf.row[j].viewAction THEN leaf
    ELSE CreateButton(leaf, cv)

addButtonToLeaf(leaf, cv) ==
    IF ~leaf.isMarkdownView THEN leaf
    ELSE IF ~leaf.hasActions THEN leaf
    ELSE IF HasButton(leaf.row) THEN leaf
    ELSE CreateButton(leaf, cv)

\* variant: the walk over the leaves ends at the first leaf without action row
addViewActionButtons_StopsAtMissingRow(ps, cv) ==
    LET cleared == RemoveAllButtons(ps)
        leaves == getLeavesOfType(cleared, "markdown")
        reached == {i \in leaves : \A k \in leaves : k < i => cleared[k].hasActions}
    IN  [i \in DOMAIN ps |->
            IF i \in reached THEN addButtonToLeaf(cleared[i], cv) ELSE cleared[i]]

addViewActionButtons(ps, cv) ==
    LET cleared == RemoveAllButtons(ps)
        leaves == getLeavesOfType(cleared, "markdown")
    IN  [i \in DOMAIN ps |->
            IF i \in leaves THEN addButtonToLeaf(cleared[i], cv) ELSE cleared[i]]

\* updateButtonIcon(button) followed by setAttribute('aria-label', ...)
UpdateRow(row, cv) ==
    [j \in 1..Len(row) |->
        IF IsButton(row[j])
        THEN [updateButtonIcon(row[j], cv) EXCEPT !.label = AriaLabel(cv)]
        ELSE row[j]]

\* variant: the refresh rebuilds the buttons as the rescan does
updateAllButtons_Rebuilds(ps, cv) == addViewActionButtons(ps, cv)

\* document.querySelectorAll(...) again: only the leaves attached to `document`
updateAllButtons(ps, cv) ==
    [i \in DOMAIN ps |->
        IF ps[i].open /\ ps[i].inDocument
        THEN [ps[i] EXCEPT !.row = UpdateRow(@, cv)]
        ELSE ps[i]]

\* variant: the branches of the test are swapped
applyContentVisibility_Swapped(cv) == cv

\* document.body.removeClass / addClass('content-visible-hidden')
applyContentVisibility(cv) == ~cv

\* variant: the two literals are swapped
updateStatusBar_Swapped(cv) == StatusLiteral(~cv)

\* this.statusBarItem.setText(...)
updateStatusBar(cv) == StatusLiteral(cv)

\* -------------------------------------------------------------- history
Observable == [cv |-> contentVisible, hidden |-> hiddenClass,
               status |-> statusText, panes |-> panes]

NoRun == /\ run' = 0
         /\ saved' = <<>>

NoScan == scans' = 0

\* ------------------------------------------------------------------ Init
Init ==
    /\ panes = [i \in PaneIds |-> Closed]
    /\ settings = NoObject
    /\ persisted \in Blobs
    /\ pending = <<>>
    /\ diskWrite = "none"
    /\ hiddenClass = FALSE
    /\ statusText = ""
    /\ pc = "idle"
    /\ unloaded = FALSE
    /\ registered = FALSE
    /\ last = "init"
    /\ run = 0
    /\ saved = <<>>
    /\ scans = 0

\* --------------------------------------------------------------- actions
\* the host opens a leaf (its header row holds only the host's controls)
OpenPane(i, shape) ==
    /\ ~panes[i].open
    /\ panes' = [panes EXCEPT ![i] = shape]
    /\ last' = "pane"
    /\ NoRun
    /\ NoScan
    /\ UNCHANGED <<settings, persisted, pending, diskWrite, hiddenClass,
                   statusText, pc, unloaded, registered>>

\* the host closes a leaf: its elements leave the rendering tree
ClosePane(i) ==
    /\ panes[i].open
    /\ panes' = [panes EXCEPT ![i] = Closed]
    /\ last' = "pane"
    /\ NoRun
    /\ NoScan
    /\ UNCHANGED <<settings, persisted, pending, diskWrite, hiddenClass,
                   statusText, pc, unloaded, registered>>

\* variant: the write carries the settings as they were before the turn
saveSettings_BeforeMutation(q, s) ==
    Append([k \in 1..Len(q) |-> [q[k] EXCEPT !.latest = FALSE]],
           [data |-> settings, latest |-> TRUE])

\* saveData(this.settings): the object is serialised when the call is made
saveSettings(q, s) ==
    Append([k \in 1..Len(q) |-> [q[k] EXCEPT !.latest = FALSE]],
           [data |-> s, latest |-> TRUE])

\* variant: the listener and the command are registered before the await
OnloadStart_RegistersFirst ==
    /\ pc = "idle"
    /\ pc' = "awaitLoad"
    /\ registered' = TRUE
    /\ last' = "start"
    /\ NoRun
    /\ NoScan
    /\ UNCHANGED <<panes, settings, persisted, pending, diskWrite,
                   hiddenClass, statusText, unloaded>>

\* onload up to `await this.loadSettings()`
OnloadStart ==
    /\ pc = "idle"
    /\ pc' = "awaitLoad"
    /\ last' = "start"
    /\ NoRun
    /\ NoScan
    /\ UNCHANGED <<panes, settings, persisted, pending, diskWrite,
                   hiddenClass, statusText, unloaded, registered>>

\* loadSettings after `await this.loadData()`: this.settings is assigned and
\* the method returns, which queues the continuation of onload
LoadSettingsResume ==
    /\ pc = "awaitLoad"
    /\ settings' = loadSettings(persisted)
    /\ pc' = "settingsLoaded"
    /\ last' = "settings"
    /\ NoRun
    /\ NoScan
    /\ UNCHANGED <<panes, persisted, pending, diskWrite, hiddenClass,
                   statusText, unloaded, registered>>

\* onload after `await this.loadSettings()` to its end; nothing in it looks
\* at whether onunload has run meanwhile
OnloadResume ==
    /\ pc = "settingsLoaded"
    /\ statusText' = updateStatusBar(contentVisible)
    /\ registered' = TRUE
    /\ panes' = addViewActionButtons(panes, contentVisible)
    /\ hiddenClass' = applyContentVisibility(contentVisible)
    /\ pc' = "loaded"
    /\ last' = "load"
    /\ NoRun
    /\ scans' = 1
    /\ UNCHANGED <<settings, persisted, pending, diskWrite, unloaded>>

\* variant: onunload also writes the settings
Onunload_Saves ==
    /\ pc # "idle"
    /\ ~unloaded
    /\ panes' = RemoveAllButtons(panes)
    /\ hiddenClass' = FALSE
    /\ pending' = saveSettings(pending, settings)
    /\ unloaded' = TRUE
    /\ registered' = FALSE
    /\ last' = "unload"
    /\ NoRun
    /\ NoScan
    /\ UNCHANGED <<settings, persisted, diskWrite, statusText, pc>>

\* onunload; the host then drops what the plugin had registered so far
Onunload ==
    /\ pc # "idle"
    /\ ~unloaded
    /\ panes' = RemoveAllButtons(panes)
    /\ hiddenClass' = FALSE
    /\ unloaded' = TRUE
    /\ registered' = FALSE
    /\ last' = "unload"
    /\ NoRun
    /\ NoScan
    /\ UNCHANGED <<settings, persisted, pending, diskWrite, statusText, pc>>

\* variant: the listener reads the settings again before the rescan
ActiveLeafChange_Reloads ==
    /\ registered
    /\ settings' = loadSettings(persisted)
    /\ panes' = addViewActionButtons(panes, settings'[CV])
    /\ last' = "rescan"
    /\ NoRun
    /\ scans' = IF scans = 0 THEN 1 ELSE 2
    /\ UNCHANGED <<persisted, pending, diskWrite, hiddenClass,
                   statusText, pc, unloaded, registered>>

\* 'active-leaf-change' -> this.addViewActionButtons()
ActiveLeafChange ==
    /\ registered
    /\ panes' = addViewActionButtons(panes, contentVisible)
    /\ last' = "rescan"
    /\ NoRun
    /\ scans' = IF scans = 0 THEN 1 ELSE 2
    /\ UNCHANGED <<settings, persisted, pending, diskWrite, hiddenClass,
                   statusText, pc, unloaded, registered>>

\* variant: the flag is cleared instead of inverted
toggled_Clear(s) == [s EXCEPT ![CV] = FALSE]

\* this.settings.contentVisible = !this.settings.contentVisible
toggled(s) == [s EXCEPT ![CV] = ~@]

toggleContentVisibility ==
    /\ Len(pending) < MaxPending
    /\ settings' = toggled(settings)
    /\ pending' = saveSettings(pending, settings')
    /\ diskWrite' = IF diskWrite = "none" THEN "none" ELSE "stale"
    /\ hiddenClass' = applyContentVisibility(settings'[CV])
    /\ panes' = updateAllButtons(panes, settings'[CV])
    /\ statusText' = updateStatusBar(settings'[CV])
    /\ last' = "toggle"
    /\ IF run = 1
       THEN run' = 2 /\ saved' = saved
       ELSE run' = 1 /\ saved' = <<Observable>>
    /\ NoScan
    /\ UNCHANGED <<persisted, pc, unloaded, registered>>

\* the command 'toggle-content-visibility'
ToggleCommand ==
    /\ registered
    /\ toggleContentVisibility

\* click on the button of leaf i (the listener lives as long as the element)
ClickButton(i) ==
    /\ panes[i].open
    /\ HasButton(panes[i].row)
    /\ toggleContentVisibility

\* one of the issued writes reaches the disk
RemoveAt(q, k) == SubSeq(q, 1, k - 1) \o SubSeq(q, k + 1, Len(q))

SaveComplete(k) ==
    /\ k \in 1..Len(pending)
    /\ persisted' = Stored(pending[k].data)
    /\ diskWrite' = IF pending[k].latest THEN "latest" ELSE "stale"
    /\ pending' = RemoveAt(pending, k)
    /\ last' = "save"
    /\ UNCHANGED <<panes, settings, hiddenClass, statusText, pc, unloaded,
                   registered, run, saved, scans>>

Next ==
    \/ \E i \in PaneIds, shape \in PaneShapes : OpenPane(i, shape)
    \/ \E i \in PaneIds : ClosePane(i)
    \/ OnloadStart
    \/ LoadSettingsResume
    \/ OnloadResume
    \/ Onunload
    \/ ActiveLeafChange
    \/ ToggleCommand
    \/ \E i \in PaneIds : ClickButton(i)
    \/ \E k \in 1..MaxPending : SaveComplete(k)

Spec == Init /\ [][Next]_vars

TypeOK ==
    /\ pc \in {"idle", "awaitLoad", "settingsLoaded", "loaded"}
    /\ run \in 0..2
    /\ Len(pending) <= MaxPending
    /\ diskWrite \in {"none", "latest", "stale"}
    /\ last \in {"init", "pane", "start", "settings", "load", "unload", "rescan", "toggle", "save"}
    /\ scans \in 0..2

\* ------------------------------------------------------------ properties
OpenPanes == {i \in PaneIds : panes[i].open}
DocumentPanes == {i \in OpenPanes : panes[i].isMarkdownView}
Buttons(i) == {j \in 1..Len(panes[i].row) : IsButton(panes[i].row[j])}
AfterRescan == last \in {"load", "rescan"}

\* C1 as stated: after a rescan (at load or on active-leaf-change) every open
\* document pane holds exactly one toggle button.
C1_EveryDocumentPane ==
    AfterRescan => \A i \in DocumentPanes : ButtonCount(panes[i].row) = 1

\* C1 amended: after a rescan every open document pane whose header has an
\* action row holds exactly one toggle button.
C1_EveryPaneWithActionRow ==
    AfterRescan =>
        \A i \in DocumentPanes : panes[i].hasActions => ButtonCount(panes[i].row) = 1

\* a rescan has run over a document pane with host controls and one without action row
C1_Witness ==
    /\ last = "rescan"
    /\ \E i, k \in DocumentPanes :
          /\ panes[i].hasActions /\ Len(panes[i].row) = 2 /\ ButtonCount(panes[i].row) = 1
          /\ ~panes[k].hasActions /\ ButtonCount(panes[k].row) = 0

\* C2: at the end of every event turn, every existing toggle button shows the
\* icon and the label of the current contentVisible.
C2_ButtonsInSync ==
    pc = "loaded" =>
        \A i \in OpenPanes : \A j \in Buttons(i) :
            /\ panes[i].row[j].icon = IconName(contentVisible)
            /\ panes[i].row[j].label = AriaLabel(contentVisible)

\* C3: no pane's action row ever holds two toggle buttons.
C3_AtMostOneButton ==
    \A i \in PaneIds : ButtonCount(panes[i].row) <= 1

\* a rescan found a button that its document-wide removal had not reached
C3_Witness ==
    /\ last = "rescan"
    /\ \E i \in DocumentPanes : ~panes[i].inDocument /\ ButtonCount(panes[i].row) = 1
    /\ \E i \in DocumentPanes : panes[i].inDocument /\ ButtonCount(panes[i].row) = 1

\* C4: once onunload has run, no toggle button is left in any pane and the
\* marker class is absent from the body, in every later state.
C4_CleanAfterUnload ==
    unloaded => /\ \A i \in PaneIds : ~HasButton(panes[i].row)
                /\ ~hiddenClass

\* C5: between the end of onload and onunload, the body carries the marker
\* class exactly when contentVisible is false.
C5_MarkerDerived ==
    (pc = "loaded" /\ ~unloaded) => (hiddenClass <=> ~contentVisible)

\* a toggle has hidden the content
C5_Witness ==
    pc = "loaded" /\ ~unloaded /\ last = "toggle" /\ hiddenClass /\ ~contentVisible

\* C6: two toggles in succession from a loaded state restore contentVisible,
\* the marker class, the status text and every pane's row.
C6_ToggleTwice ==
    (run = 2 /\ ~unloaded) => Observable = saved[1]

\* two toggles in succession have run over a pane that holds a button
C6_Witness ==
    /\ run = 2 /\ ~unloaded /\ last = "toggle"
    /\ \E i \in DocumentPanes : panes[i].inDocument /\ HasButton(panes[i].row)

\* C7 as stated: once no save is pending after some toggle, the blob on disk
\* holds the in-memory contentVisible.
C7_DiskEqualsMemory ==
    (pending = <<>> /\ diskWrite # "none") =>
        (persisted.present /\ persisted.obj[CV] = contentVisible)

\* C7 amended: once no save is pending, the blob on disk holds the in-memory
\* settings provided the write issued by the most recent toggle was the last
\* one to reach the disk.
C7_LatestWriteWins ==
    (pending = <<>> /\ diskWrite = "latest") =>
        (persisted.present /\ persisted.obj = settings)

\* two overlapping saves have completed in the order they were issued
C7_Witness ==
    pending = <<>> /\ diskWrite = "latest" /\ last = "save" /\ run = 2

\* C8: once loadSettings has returned, and at the end of onload, contentVisible
\* is the stored value when the blob has one, and true otherwise, whatever
\* other fields the blob holds.
C8_LoadMerge ==
    (pc = "settingsLoaded" \/ last = "load") =>
        contentVisible =
            IF persisted.present /\ CV \in DOMAIN persisted.obj
            THEN persisted.obj[CV]
            ELSE TRUE

\* a blob with a stored false and an unrelated field has been loaded
C8_Witness ==
    /\ last = "load"
    /\ persisted.present /\ DOMAIN persisted.obj = {CV, "extra"}
    /\ ~contentVisible

\* C9: from the end of onload on, the status text is one of the two literals
\* and the one that matches contentVisible.
C9_StatusMatches ==
    pc = "loaded" =>
        /\ statusText \in {"Visible", "Hidden"}
        /\ (statusText = "Visible") <=> contentVisible
        /\ (statusText = "Hidden") <=> ~contentVisible

\* a toggle has changed the status to the 'Hidden' literal
C9_Witness ==
    pc = "loaded" /\ last = "toggle" /\ statusText = "Hidden" /\ ~contentVisible

\* C10: a pane whose view is not a MarkdownView never holds a toggle button.
C10_NoButtonOutsideDocuments ==
    \A i \in OpenPanes : ~panes[i].isMarkdownView => ~HasButton(panes[i].row)

\* a rescan has passed over a deferred markdown leaf and a non-markdown leaf
C10_Witness ==
    /\ last = "rescan"
    /\ \E i, k \in OpenPanes :
          /\ panes[i].viewType = "markdown" /\ ~panes[i].isMarkdownView
          /\ panes[i].hasActions /\ ~HasButton(panes[i].row)
          /\ panes[k].viewType = "other" /\ ~HasButton(panes[k].row)

\* the host's view actions of a row: children with class view-action other than the button
Controls(i) ==
    {k \in 1..Len(panes[i].row) : panes[i].row[k].viewAction /\ ~IsButton(panes[i].row[k])}

\* C11: the button sits before every other view action of its row, and at the
\* end of the row when the row has no other view action.
C11_ButtonBeforeControls ==
    \A i \in OpenPanes : \A j \in Buttons(i) :
        /\ \A k \in Controls(i) : j < k
        /\ \A k \in 1..(j - 1) : ~panes[i].row[k].viewAction
        /\ (Controls(i) = {}) => j = Len(panes[i].row)

\* a rescan has placed buttons: one before a host view action and after a
\* child that is no view action, one as the only child of an empty row
C11_Witness ==
    /\ last = "rescan"
    /\ \E i, k \in DocumentPanes :
          /\ Len(panes[i].row) = 3 /\ Buttons(i) = {2} /\ Controls(i) = {3}
          /\ Len(panes[k].row) = 1 /\ Buttons(k) = {1}

\* C12: a rescan that directly follows a rescan (the one of onload included),
\* with no pane change and no toggle between them, leaves every pane's row as
\* the first one left it: same buttons, same positions, same icons and labels.
C12_RescanIdempotent ==
    [][scans' = 2 => panes' = panes]_vars

\* a second rescan in succession has run over a pane in the main window with a
\* host view action and over a pane outside `document` that keeps its button
C12_Witness ==
    /\ scans = 2 /\ last = "rescan"
    /\ \E i, k \in DocumentPanes :
          /\ panes[i].inDocument /\ Buttons(i) = {1} /\ Controls(i) = {2}
          /\ ~panes[k].inDocument /\ Buttons(k) = {1}

\* a turn that ran addViewActionButtons: the end of onload or an active-leaf-change
RescanTurn == last' \in {"load", "rescan"}

\* C13 as stated: every document pane that is open when the rescan of onload
\* or of an active-leaf-change notification runs holds a button at the end of
\* that turn.
C13_EveryOpenDocumentPane ==
    [][RescanTurn =>
        \A i \in DocumentPanes : HasButton(panes'[i].row)]_vars

\* C13 amended: every document pane with an action row that is open when the
\* rescan of onload or of an active-leaf-change notification runs holds a
\* button at the end of that turn.
C13_EveryOpenPaneWithActionRow ==
    [][RescanTurn =>
        \A i \in DocumentPanes : panes[i].hasActions => HasButton(panes'[i].row)]_vars

\* an active-leaf-change notification that followed a pane change or a toggle
\* has given the open document panes of the main window their buttons
C13_Witness ==
    /\ last = "rescan" /\ scans = 1 /\ pc = "loaded" /\ ~unloaded
    /\ \A i \in PaneIds :
          panes[i].open /\ panes[i].isMarkdownView /\ panes[i].inDocument
          /\ panes[i].hasActions /\ HasButton(panes[i].row)

\* C14: a document pane without header or action row is passed over by the
\* rescan: its row stays empty, and every other open document pane that has
\* an action row still holds its one button after the same rescan.
C14_MissingRowSkipped ==
    AfterRescan =>
        \A k \in DocumentPanes :
            ~panes[k].hasActions =>
                /\ panes[k].row = <<>>
                /\ \A i \in DocumentPanes \ {k} :
                      panes[i].hasActions => ButtonCount(panes[i].row) = 1

\* the rescan met the pane without action row first and then gave the next
\* pane its button
C14_Witness ==
    /\ AfterRescan
    /\ \E k, i \in DocumentPanes :
          /\ k < i
          /\ ~panes[k].hasActions /\ panes[k].row = <<>>
          /\ panes[i].hasActions /\ panes[i].inDocument /\ ButtonCount(panes[i].row) = 1

\* what a refresh must leave alone: the leaf, the length of its row, every
\* child that is no button, and the position of every button
Frame(ps) ==
    [i \in DOMAIN ps |->
        [ps[i] EXCEPT !.row =
            [j \in 1..Len(ps[i].row) |->
                IF IsButton(ps[i].row[j])
                THEN [ps[i].row[j] EXCEPT !.icon = "", !.label = ""]
                ELSE ps[i].row[j]]]]

\* C15: a toggle (and with it updateAllButtons) creates no button, removes
\* none and moves none; only icons and labels of buttons change.
C15_RefreshKeepsButtons ==
    [][last' = "toggle" => Frame(panes') = Frame(panes)]_vars

\* a toggle has run while one document pane held a button behind which a host
\* view action sits, and another, opened since the last rescan, held none
C15_Witness ==
    /\ last = "toggle"
    /\ \E i, k \in DocumentPanes :
          /\ panes[i].inDocument /\ Buttons(i) = {1} /\ Controls(i) = {2}
          /\ panes[i].row[1].icon = "eye-off"
          /\ panes[k].inDocument /\ panes[k].hasActions /\ Buttons(k) = {}

\* C16: onunload issues no write and leaves the blob on disk, the writes in
\* flight and the in-memory settings as they were.
C16_UnloadKeepsStore ==
    [][last' = "unload" =>
        /\ persisted' = persisted
        /\ pending' = pending
        /\ settings' = settings]_vars

\* onunload has run while the content was hidden and a write was in flight
C16_Witness ==
    /\ last = "unload" /\ unloaded /\ pc = "loaded"
    /\ pending # <<>> /\ ~contentVisible /\ ~hiddenClass

\* C17: the rescan of an active-leaf-change notification leaves the settings,
\* the blob on disk, the writes in flight, the marker class and the status
\* text as they were.
C17_RescanKeepsState ==
    [][last' = "rescan" =>
        /\ settings' = settings
        /\ persisted' = persisted
        /\ pending' = pending
        /\ hiddenClass' = hiddenClass
        /\ statusText' = statusText]_vars

\* a rescan has rebuilt a button while the content was hidden, the blob on
\* disk still held another value and a write was in flight
C17_Witness ==
    /\ last = "rescan" /\ hiddenClass /\ statusText = "Hidden" /\ pending # <<>>
    /\ loadSettings(persisted)[CV] # contentVisible
    /\ \E i \in DocumentPanes : panes[i].inDocument /\ HasButton(panes[i].row)

\* C18: while loadSettings has not returned the settings are unset, and
\* until onload has gone past it nothing can toggle: no listener or command
\* is registered, no pane holds a button and no write has been issued; every
\* toggle runs with loaded settings.
C18_NoToggleBeforeLoad ==
    /\ pc \in {"idle", "awaitLoad"} => settings = NoObject
    /\ pc # "loaded" =>
          /\ ~registered
          /\ \A i \in PaneIds : ~HasButton(panes[i].row)
          /\ pending = <<>> /\ diskWrite = "none"
    /\ (registered \/ last = "toggle" \/ \E i \in PaneIds : HasButton(panes[i].row)) =>
          (pc = "loaded" /\ CV \in DOMAIN settings)

\* onload is suspended at the await while a document pane with an action row is open
C18_Witness ==
    /\ pc = "awaitLoad" /\ ~unloaded
    /\ \E i \in DocumentPanes : panes[i].inDocument /\ panes[i].hasActions
====
